---- MODULE Spec2Model ----
(***************************************************************************)
(* Model of the maintenance-plan form applications:                        *)
(*   src/app.py          (Streamlit: form, call_ai, session history)       *)
(*   src/nicegui_app.py  (NiceGUI: on_click, call_ai)                      *)
(*                                                                         *)
(* Text is a sequence of one-character strings.  Python values are         *)
(* sequences too: None is PyNone, a parsed JSON value is its canonical     *)
(* text (two values are equal iff their canonical texts are).              *)
(***************************************************************************)
EXTENDS Integers, Sequences, FiniteSets, TLC

\* ------------------------------------------------------------------ bounds

\* successful submits per session whose results are kept in the history
MaxClock == 2

\* chunks concatenated to build the inputs of the normalizer
MaxChunks == 4

\* successful submits of a long session, one more than the history view shows
MaxLongClock == 21

\* ---------------------------------------------------------------- constants

\* `st.session_state.history[:20]`
HistoryLimit == 20

\* ------------------------------------------------------ python str methods

\* characters removed by str.strip() with no argument, and skipped by the
\* JSON decoder between tokens
WS == {" ", "\n"}

\* the backquote character (the lexer of this language reserves it, so it is
\* written with a two-letter name)
BQ == "bq"

BACKTICK == {BQ}

FENCE == <<BQ, BQ, BQ>>

JSONTAG == <<"j", "s", "o", "n">>

\* the span of v between its first and its last character outside cs
Trimmed(v, cs) ==
  LET keep == {i \in 1..Len(v) : v[i] \notin cs}
      first == CHOOSE i \in keep : \A k \in keep : i <= k
      last == CHOOSE i \in keep : \A k \in keep : k <= i
  IN IF keep = {} THEN <<>> ELSE SubSeq(v, first, last)

\* str.strip(chars): drop leading and trailing characters that are in cs
\* (s is bound to its value once, then trimmed)
StripChars(s, cs) == CHOOSE r \in {Trimmed(v, cs) : v \in {s}} : TRUE

\* str.strip()
Strip(s) == StripChars(s, WS)

\* str.lower() on the characters of the model's alphabet
LowerChar(c) ==
  CASE c = "J" -> "j"
    [] c = "S" -> "s"
    [] c = "O" -> "o"
    [] c = "N" -> "n"
    [] OTHER -> c

Lower(s) == [i \in 1..Len(s) |-> LowerChar(s[i])]

\* str.startswith(p)
StartsWith(s, p) == Len(s) >= Len(p) /\ SubSeq(s, 1, Len(p)) = p

\* s[k:] for k >= 0
DropFirst(s, k) == SubSeq(s, k + 1, Len(s))

\* ---------------------------------------------------------- python values

\* None; the value of `resp.text` when the response has no text, of
\* `last_data` before any result, and of json.loads("null")
PyNone == <<"None">>

\* `x or ""`
OrEmpty(x) == IF x = PyNone THEN <<>> ELSE x

\* --------------------------------------------------------------- json.loads

\* first index >= i that is past the end of s or holds no whitespace
SkipWs(s, i) ==
  CHOOSE j \in i..(Len(s) + 1) :
    /\ \A k \in i..(j - 1) : s[k] \in WS
    /\ (j = Len(s) + 1 \/ s[j] \notin WS)

Fail(msg, pos) == [ok |-> FALSE, val |-> <<>>, end |-> 0, msg |-> msg, pos |-> pos]

Good(val, end) == [ok |-> TRUE, val |-> val, end |-> end, msg |-> "", pos |-> 0]

\* json.decoder.scanstring: i is the index after the opening quote.  The
\* value keeps its quotes so that the string "1" differs from the number 1.
ScanString(s, i) ==
  LET closing == {j \in i..Len(s) : s[j] = "\""}
      j == CHOOSE c \in closing : \A d \in closing : c <= d
  IN IF closing = {}
       THEN Fail("Unterminated string starting at", i - 2)
       ELSE Good(SubSeq(s, i - 1, j), j + 1)

\* end of the run of digits that starts at i
DigitsEnd(s, i) ==
  CHOOSE j \in i..(Len(s) + 1) :
    /\ \A k \in i..(j - 1) : s[k] = "1"
    /\ (j = Len(s) + 1 \/ s[j] # "1")

RECURSIVE ScanOnce(_, _)

\* json.decoder.JSONObject: i is the index after the opening brace
ScanObject(s, i) ==
  LET a == SkipWs(s, i)
  IN IF a <= Len(s) /\ s[a] = "}" THEN Good(<<"{", "}">>, a + 1)
     ELSE IF a > Len(s) \/ s[a] # "\""
       THEN Fail("Expecting property name enclosed in double quotes", a - 1)
     ELSE
       LET key == ScanString(s, a + 1)
       IN IF ~key.ok THEN key
          ELSE
            LET c == SkipWs(s, key.end)
            IN IF c > Len(s) \/ s[c] # ":"
                 THEN Fail("Expecting ':' delimiter", c - 1)
               ELSE
                 LET v == ScanOnce(s, SkipWs(s, c + 1))
                 IN IF ~v.ok THEN v
                    ELSE
                      LET e == SkipWs(s, v.end)
                      IN IF e <= Len(s) /\ s[e] = "}"
                           THEN Good(<<"{">> \o key.val \o <<":">> \o v.val \o <<"}">>, e + 1)
                           ELSE Fail("Expecting ',' delimiter", e - 1)

\* json.scanner.py_make_scanner._scan_once at index i (1-based); positions
\* in errors are 0-based as in JSONDecodeError
ScanOnce(s, i) ==
  IF i > Len(s) THEN Fail("Expecting value", i - 1)
  ELSE IF s[i] = "\"" THEN ScanString(s, i + 1)
  ELSE IF s[i] = "{" THEN ScanObject(s, i + 1)
  ELSE IF i + 3 <= Len(s) /\ SubSeq(s, i, i + 3) = <<"n", "u", "l", "l">>
    THEN Good(PyNone, i + 4)
  ELSE IF s[i] = "1" THEN Good(SubSeq(s, i, DigitsEnd(s, i) - 1), DigitsEnd(s, i))
  ELSE Fail("Expecting value", i - 1)

\* json.loads(s): one value, whitespace around it, nothing after it
JsonLoads(s) ==
  LET v == ScanOnce(s, SkipWs(s, 1))
  IN IF ~v.ok THEN v
     ELSE IF SkipWs(s, v.end) # Len(s) + 1
       THEN Fail("Extra data", SkipWs(s, v.end) - 1)
       ELSE v

\* ------------------------------------------------------------- normalizers

\* app.py _strip_code_fences
StripCodeFences(text) ==
  LET t0 == Strip(OrEmpty(text))
      t1 == Strip(StripChars(t0, BACKTICK))
  IN IF StartsWith(t0, FENCE)
       THEN IF StartsWith(Lower(t1), JSONTAG) THEN Strip(DropFirst(t1, 4)) ELSE t1
       ELSE t0

\* nicegui_app.py call_ai: the text handed to json.loads
NiceguiNormalize(text) ==
  LET t0 == Strip(OrEmpty(text))
      t1 == StripChars(t0, BACKTICK)
  IN IF StartsWith(t0, FENCE)
       THEN IF StartsWith(Lower(t1), JSONTAG) THEN Strip(DropFirst(t1, 4)) ELSE t1
       ELSE t0

\* ------------------------------------------------------ the backend double

\* one scripted answer of client.models.generate_content: it raises, or it
\* returns a response whose .text is a string or None
Raise(e) == [raises |-> TRUE, err |-> e, text |-> <<>>]

Answer(t) == [raises |-> FALSE, err |-> "", text |-> t]

OBJ == <<"{", "\"", "a", "\"", ":", "1", "}">>

\* an empty object with whitespace around and inside it
EMPTYOBJ == <<"\n", "{", " ", "}", " ">>

NULL == <<"n", "u", "l", "l">>

\* a fenced block with a language tag around the object
FENCED == FENCE \o JSONTAG \o <<"\n">> \o OBJ \o <<"\n">> \o FENCE

\* the object cut before its closing brace
TRUNCATED == SubSeq(OBJ, 1, Len(OBJ) - 1)

\* the object with prose before and after it
PROSE == <<"x", " ">> \o OBJ \o <<" ", "x">>

Responses ==
  { Raise("400 INVALID_ARGUMENT"), Raise("503 UNAVAILABLE"),
    Answer(PyNone), Answer(OBJ), Answer(EMPTYOBJ), Answer(NULL),
    Answer(FENCED), Answer(TRUNCATED), Answer(PROSE) }

\* the answers to the first and to the second call of one request; after a
\* first call that raises every second answer is tried, after one that
\* returns text a valid and an invalid one
Scripts ==
  {<<r1, r2>> : r1 \in {r \in Responses : r.raises}, r2 \in Responses}
    \cup {<<r1, r2>> : r1 \in {r \in Responses : ~r.raises},
                      r2 \in {Answer(OBJ), Answer(TRUNCATED)}}

\* ---------------------------------------------------------------- messages

NoCause == [msg |-> "", pos |-> 0]

\* what a message says: a fixed wording, the str() of the underlying
\* exception, and the model text it quotes (when it quotes one)
Message(what, cause, quoted, hasText) ==
  [what |-> what, cause |-> cause, text |-> quoted, hasText |-> hasText]

NoMessage == Message("", NoCause, <<>>, FALSE)

\* str(e) of an exception raised by generate_content or get_client
BackendError(err) == Message("", [msg |-> err, pos |-> 0], <<>>, FALSE)

\* app.py call_ai: ValueError(f"No se pudo parsear JSON devuelto por IA.
\* Error: {e}\n\nRespuesta IA:\n{text}")
ParseError(perr, t) ==
  Message("No se pudo parsear JSON devuelto por IA.", [msg |-> perr.msg, pos |-> perr.pos], t, TRUE)

\* nicegui_app.py call_ai: the JSONDecodeError of json.loads propagates; its
\* str() is "<msg>: line .. column .. (char <pos>)"
DecodeError(perr, t) ==
  Message("", [msg |-> perr.msg, pos |-> perr.pos], <<>>, FALSE)

MissingFieldsSt == Message("Faltan datos: **marca** y **modelo** son obligatorios.", NoCause, <<>>, FALSE)

MissingFieldsNg == Message("ERROR: marca y modelo son obligatorios", NoCause, <<>>, FALSE)

CredentialsError == BackendError("No existe st.secrets['google']")

CredentialsErrorNg == BackendError("Faltan credenciales")

\* the NiceGUI output textarea
Out(kind, msg, data) == [kind |-> kind, msg |-> msg, data |-> data]

\* -------------------------------------------------------------------- state

VARIABLES
  app,        \* which program runs: "streamlit" (app.py) or "nicegui"
  creds_ok,   \* whether get_client() finds usable credentials
  pc,         \* position of the submit handler
  marca,      \* the brand field as read by the handler
  modelo,     \* the model field as read by the handler
  backend,    \* the script of the backend double for this request
  calls,      \* the calls the backend double recorded for this request
  inflight,   \* backend calls started and not yet finished
  text,       \* call_ai's local `text`
  data,       \* the handler's local `data`
  status,     \* app.py: state of the st.status box
  errors,     \* app.py: the st.error messages of this run
  out,        \* nicegui_app.py: out.value
  last_data,  \* app.py: st.session_state.last_data
  history,    \* app.py: st.session_state.history
  clock,      \* app.py: results stored so far; the next one is stamped with it
  nraw,       \* normalizer check: the input
  nout        \* normalizer check: the successive outputs

vars ==
  <<app, creds_ok, pc, marca, modelo, backend, calls, inflight, text, data,
    status, errors, out, last_data, history, clock, nraw, nout>>

session == <<last_data, history, clock>>

norm == <<nraw, nout>>

env == <<app, creds_ok>>

\* the values a text field can hold
FormTexts == {<<>>, <<" ", "\n">>, <<" ", "a", "\n">>}

\* ui.input(...).value can also be None
FormValues == FormTexts \cup {PyNone}

Init ==
  /\ app \in {"streamlit", "nicegui"}
  /\ creds_ok \in BOOLEAN
  /\ pc = "idle"
  /\ marca = <<>>
  /\ modelo = <<>>
  /\ backend = <<>>
  /\ calls = <<>>
  /\ inflight = 0
  /\ text = <<>>
  /\ data = PyNone
  /\ status = "none"
  /\ errors = <<>>
  /\ out = Out("empty", NoMessage, <<>>)
  /\ last_data = PyNone
  /\ history = <<>>
  /\ clock = 0
  /\ nraw = <<>>
  /\ nout = <<>>

\* ------------------------------------------------------------------ app.py

\* the check with the test of the model field forgotten
MissingFields_BrandOnly(ma, mo) == Strip(ma) = <<>>

\* `if not marca.strip() or not modelo.strip()`
MissingFields(ma, mo) == Strip(ma) = <<>> \/ Strip(mo) = <<>>

\* the entry inserted in the history (horas, model, temperature, seed and
\* preset are passed through like marca and modelo)
Entry(ts, ma, mo, d) == [ts |-> ts, inputs |-> [marca |-> Strip(ma), modelo |-> Strip(mo)], data |-> d]

\* `if submit:` up to the first generate_content call of call_ai, with the
\* form texts, the backend scripts and the number of stored results drawn
\* from the given sets and bound
SubmitWith(forms, scripts, limit) ==
  /\ app = "streamlit"
  /\ pc \in {"idle", "done"}
  /\ clock < limit
  /\ \E ma \in forms, mo \in forms, script \in scripts :
       /\ marca' = ma
       /\ modelo' = mo
       /\ backend' = script
       /\ calls' = IF MissingFields(ma, mo) \/ ~creds_ok THEN <<>> ELSE <<[config |-> TRUE]>>
       /\ inflight' = IF MissingFields(ma, mo) \/ ~creds_ok THEN 0 ELSE 1
       /\ errors' = IF MissingFields(ma, mo) THEN <<MissingFieldsSt>>
                    ELSE IF ~creds_ok THEN <<CredentialsError>>
                    ELSE <<>>
       /\ status' = IF MissingFields(ma, mo) THEN "none"
                    ELSE IF ~creds_ok THEN "error"
                    ELSE "running"
       /\ pc' = IF MissingFields(ma, mo) \/ ~creds_ok THEN "done" ELSE "primary"
  /\ text' = <<>>
  /\ data' = PyNone
  /\ UNCHANGED <<env, out, session, norm>>

\* the submit handler of a session
Submit == SubmitWith(FormTexts, Scripts, MaxClock)

\* the first call with the fallback written as `finally:` instead of
\* `except Exception:`, so that it also runs after a call that returned
call_ai_primary_Finally ==
  /\ app = "streamlit"
  /\ pc = "primary"
  /\ inflight' = 0
  /\ pc' = "except"
  /\ text' = IF backend[1].raises THEN text ELSE StripCodeFences(backend[1].text)
  /\ UNCHANGED <<env, marca, modelo, backend, calls, data, status, errors, out, session, norm>>

\* the first call without the `except Exception:` fallback: its exception
\* goes straight to the handler
call_ai_primary_NoFallback ==
  /\ app = "streamlit"
  /\ pc = "primary"
  /\ inflight' = 0
  /\ IF backend[1].raises
       THEN /\ pc' = "done"
            /\ status' = "error"
            /\ errors' = Append(errors, BackendError(backend[1].err))
            /\ text' = text
       ELSE /\ pc' = "parse"
            /\ text' = StripCodeFences(backend[1].text)
            /\ UNCHANGED <<status, errors>>
  /\ UNCHANGED <<env, marca, modelo, backend, calls, data, out, session, norm>>

\* the configured generate_content call returns or raises (lines 252-259)
call_ai_primary ==
  /\ app = "streamlit"
  /\ pc = "primary"
  /\ inflight' = 0
  /\ IF backend[1].raises
       THEN pc' = "except" /\ text' = text
       ELSE pc' = "parse" /\ text' = StripCodeFences(backend[1].text)
  /\ UNCHANGED <<env, marca, modelo, backend, calls, data, status, errors, out, session, norm>>

\* `except Exception:` starts the call without config (line 261)
call_ai_fallback ==
  /\ app = "streamlit"
  /\ pc = "except"
  /\ calls' = Append(calls, [config |-> FALSE])
  /\ inflight' = inflight + 1
  /\ pc' = "fallback"
  /\ UNCHANGED <<env, marca, modelo, backend, text, data, status, errors, out, session, norm>>

\* the fallback retried for as long as it raises
call_ai_fallback_return_Retry ==
  /\ app = "streamlit"
  /\ pc = "fallback"
  /\ inflight' = inflight - 1
  /\ IF backend[2].raises
       THEN pc' = "except" /\ text' = text
       ELSE pc' = "parse" /\ text' = StripCodeFences(backend[2].text)
  /\ UNCHANGED <<env, marca, modelo, backend, calls, data, status, errors, out, session, norm>>

\* the call without config returns, or raises into the handler's except
\* (lines 261-262, 402-405)
call_ai_fallback_return ==
  /\ app = "streamlit"
  /\ pc = "fallback"
  /\ inflight' = inflight - 1
  /\ IF backend[2].raises
       THEN /\ pc' = "done"
            /\ status' = "error"
            /\ errors' = Append(errors, BackendError(backend[2].err))
            /\ text' = text
       ELSE /\ pc' = "parse"
            /\ text' = StripCodeFences(backend[2].text)
            /\ UNCHANGED <<status, errors>>
  /\ UNCHANGED <<env, marca, modelo, backend, calls, data, out, session, norm>>

\* the "Historial" tab: `enumerate(st.session_state.history[:20], start=1)`
HistoryView ==
  SubSeq(history, 1, IF Len(history) < HistoryLimit THEN Len(history) ELSE HistoryLimit)

\* the parse with the new entry stored by history.append(...) instead of
\* history.insert(0, ...)
call_ai_parse_Append ==
  /\ app = "streamlit"
  /\ pc = "parse"
  /\ pc' = "done"
  /\ LET r == JsonLoads(text)
     IN IF r.ok
          THEN /\ data' = r.val
               /\ status' = "complete"
               /\ last_data' = r.val
               /\ history' = Append(history, Entry(clock, marca, modelo, r.val))
               /\ clock' = clock + 1
               /\ errors' = errors
          ELSE /\ status' = "error"
               /\ errors' = Append(errors, ParseError(r, text))
               /\ UNCHANGED <<data, session>>
  /\ UNCHANGED <<env, marca, modelo, backend, calls, inflight, text, out, norm>>

\* the parse with the stored result reset when the request fails
call_ai_parse_ResetOnError ==
  /\ app = "streamlit"
  /\ pc = "parse"
  /\ pc' = "done"
  /\ LET r == JsonLoads(text)
     IN IF r.ok
          THEN /\ data' = r.val
               /\ status' = "complete"
               /\ last_data' = r.val
               /\ history' = <<Entry(clock, marca, modelo, r.val)>> \o history
               /\ clock' = clock + 1
               /\ errors' = errors
          ELSE /\ status' = "error"
               /\ errors' = Append(errors, ParseError(r, text))
               /\ last_data' = PyNone
               /\ UNCHANGED <<data, history, clock>>
  /\ UNCHANGED <<env, marca, modelo, backend, calls, inflight, text, out, norm>>

\* the parse with its failure swallowed (`except Exception: pass`)
call_ai_parse_Swallow ==
  /\ app = "streamlit"
  /\ pc = "parse"
  /\ pc' = "done"
  /\ LET r == JsonLoads(text)
     IN IF r.ok
          THEN /\ data' = r.val
               /\ status' = "complete"
               /\ last_data' = r.val
               /\ history' = <<Entry(clock, marca, modelo, r.val)>> \o history
               /\ clock' = clock + 1
          ELSE /\ status' = "complete"
               /\ UNCHANGED <<data, session>>
  /\ UNCHANGED <<env, marca, modelo, backend, calls, inflight, text, errors, out, norm>>

\* json.loads(text), then the rest of the handler: the error branch (lines
\* 266-269, 402-405) or the stores into the session (lines 407-425)
call_ai_parse ==
  /\ app = "streamlit"
  /\ pc = "parse"
  /\ pc' = "done"
  /\ LET r == JsonLoads(text)
     IN IF r.ok
          THEN /\ data' = r.val
               /\ status' = "complete"
               /\ last_data' = r.val
               /\ history' = <<Entry(clock, marca, modelo, r.val)>> \o history
               /\ clock' = clock + 1
               /\ errors' = errors
          ELSE /\ status' = "error"
               /\ errors' = Append(errors, ParseError(r, text))
               /\ UNCHANGED <<data, session>>
  /\ UNCHANGED <<env, marca, modelo, backend, calls, inflight, text, out, norm>>

\* the clear button without `st.session_state.last_data = None`
ClearHistory_KeepLast ==
  /\ app = "streamlit"
  /\ pc \in {"idle", "done"}
  /\ history' = <<>>
  /\ pc' = "idle"
  /\ marca' = <<>>
  /\ modelo' = <<>>
  /\ backend' = <<>>
  /\ calls' = <<>>
  /\ text' = <<>>
  /\ data' = PyNone
  /\ status' = "none"
  /\ errors' = <<>>
  /\ UNCHANGED <<env, inflight, out, last_data, clock, norm>>

\* the "Borrar historial" button: a rerun of the script without submit
ClearHistory ==
  /\ app = "streamlit"
  /\ pc \in {"idle", "done"}
  /\ history' = <<>>
  /\ last_data' = PyNone
  /\ pc' = "idle"
  /\ marca' = <<>>
  /\ modelo' = <<>>
  /\ backend' = <<>>
  /\ calls' = <<>>
  /\ text' = <<>>
  /\ data' = PyNone
  /\ status' = "none"
  /\ errors' = <<>>
  /\ UNCHANGED <<env, inflight, out, clock, norm>>

\* ---------------------------------------------------------- nicegui_app.py

\* `(marca_in.value or "").strip()` and `if not marca or not modelo`
MissingFieldsNgIn(ma, mo) == Strip(OrEmpty(ma)) = <<>> \/ Strip(OrEmpty(mo)) = <<>>

\* on_click up to the first generate_content call of call_ai
on_click ==
  /\ app = "nicegui"
  /\ pc \in {"idle", "done"}
  /\ \E ma \in FormValues, mo \in FormValues, script \in Scripts :
       /\ marca' = Strip(OrEmpty(ma))
       /\ modelo' = Strip(OrEmpty(mo))
       /\ backend' = script
       /\ calls' = IF MissingFieldsNgIn(ma, mo) \/ ~creds_ok THEN <<>> ELSE <<[config |-> TRUE]>>
       /\ inflight' = IF MissingFieldsNgIn(ma, mo) \/ ~creds_ok THEN 0 ELSE 1
       /\ out' = IF MissingFieldsNgIn(ma, mo) THEN Out("error", MissingFieldsNg, <<>>)
                 ELSE IF ~creds_ok THEN Out("error", CredentialsErrorNg, <<>>)
                 ELSE Out("busy", NoMessage, <<>>)
       /\ pc' = IF MissingFieldsNgIn(ma, mo) \/ ~creds_ok THEN "done" ELSE "primary"
  /\ text' = <<>>
  /\ data' = PyNone
  /\ UNCHANGED <<env, status, errors, session, norm>>

\* the configured generate_content call returns or raises (lines 108-115)
ng_call_ai_primary ==
  /\ app = "nicegui"
  /\ pc = "primary"
  /\ inflight' = 0
  /\ IF backend[1].raises
       THEN pc' = "except" /\ text' = text
       ELSE pc' = "parse" /\ text' = NiceguiNormalize(backend[1].text)
  /\ UNCHANGED <<env, marca, modelo, backend, calls, data, status, errors, out, session, norm>>

\* `except Exception:` starts the call without config (line 116)
ng_call_ai_fallback ==
  /\ app = "nicegui"
  /\ pc = "except"
  /\ calls' = Append(calls, [config |-> FALSE])
  /\ inflight' = inflight + 1
  /\ pc' = "fallback"
  /\ UNCHANGED <<env, marca, modelo, backend, text, data, status, errors, out, session, norm>>

\* the call without config returns, or raises into on_click's except
ng_call_ai_fallback_return ==
  /\ app = "nicegui"
  /\ pc = "fallback"
  /\ inflight' = inflight - 1
  /\ IF backend[2].raises
       THEN /\ pc' = "done"
            /\ out' = Out("error", BackendError(backend[2].err), <<>>)
            /\ text' = text
       ELSE /\ pc' = "parse"
            /\ text' = NiceguiNormalize(backend[2].text)
            /\ out' = out
  /\ UNCHANGED <<env, marca, modelo, backend, calls, data, status, errors, session, norm>>

\* `return json.loads(text)` and the rest of on_click (lines 124, 152-155)
ng_call_ai_parse ==
  /\ app = "nicegui"
  /\ pc = "parse"
  /\ pc' = "done"
  /\ LET r == JsonLoads(text)
     IN IF r.ok
          THEN data' = r.val /\ out' = Out("json", NoMessage, r.val)
          ELSE data' = data /\ out' = Out("error", DecodeError(r, text), <<>>)
  /\ UNCHANGED <<env, marca, modelo, backend, calls, inflight, text, status, errors, session, norm>>

Next ==
  \/ Submit
  \/ call_ai_primary
  \/ call_ai_fallback
  \/ call_ai_fallback_return
  \/ call_ai_parse
  \/ ClearHistory
  \/ on_click
  \/ ng_call_ai_primary
  \/ ng_call_ai_fallback
  \/ ng_call_ai_fallback_return
  \/ ng_call_ai_parse

Spec == Init /\ [][Next]_vars

\* the steps of a request that is under way: the handler is synchronous
\* code, and generate_content returns or raises
Step ==
  \/ call_ai_primary
  \/ call_ai_fallback
  \/ call_ai_fallback_return
  \/ call_ai_parse
  \/ ng_call_ai_primary
  \/ ng_call_ai_fallback
  \/ ng_call_ai_fallback_return
  \/ ng_call_ai_parse

\* a handler that has started runs to its end
FairSpec == Spec /\ WF_vars(Step)

\* --------------------------------------------------------- a long session

\* a Streamlit session long enough to fill the history view: one valid and
\* one empty form text, and a script for each way a request can end
LongForms == {<<>>, <<" ", "a", "\n">>}

LongScripts ==
  { <<Answer(OBJ), Answer(OBJ)>>,
    <<Answer(TRUNCATED), Answer(OBJ)>>,
    <<Raise("400 INVALID_ARGUMENT"), Answer(OBJ)>>,
    <<Raise("400 INVALID_ARGUMENT"), Raise("503 UNAVAILABLE")>> }

InitLong == Init /\ app = "streamlit" /\ creds_ok = TRUE

SubmitLong == SubmitWith(LongForms, LongScripts, MaxLongClock)

NextLong ==
  \/ SubmitLong
  \/ call_ai_primary
  \/ call_ai_fallback
  \/ call_ai_fallback_return
  \/ call_ai_parse
  \/ ClearHistory

SpecLong == InitLong /\ [][NextLong]_vars

\* ------------------------------------------------- the normalizer alone

\* pieces of model output
Chunks == {FENCE, <<BQ>>, <<" ">>, <<"\n">>, JSONTAG, <<"J", "s", "O", "N">>, OBJ, <<"x">>}

RECURSIVE Joined(_)

\* the texts made of at most n chunks
Joined(n) ==
  IF n = 0 THEN {<<>>}
  ELSE Joined(n - 1) \cup {t \o c : t \in Joined(n - 1), c \in Chunks}

NormInputs == Joined(MaxChunks) \cup {PyNone}

InitNorm ==
  /\ app = "streamlit"
  /\ creds_ok = TRUE
  /\ pc = "idle"
  /\ marca = <<>>
  /\ modelo = <<>>
  /\ backend = <<>>
  /\ calls = <<>>
  /\ inflight = 0
  /\ text = <<>>
  /\ data = PyNone
  /\ status = "none"
  /\ errors = <<>>
  /\ out = Out("empty", NoMessage, <<>>)
  /\ last_data = PyNone
  /\ history = <<>>
  /\ clock = 0
  /\ nraw \in NormInputs
  /\ nout = <<>>

\* _strip_code_fences applied to the input, then to its own output
Normalize ==
  /\ Len(nout) < 2
  /\ nout' = Append(nout, StripCodeFences(IF nout = <<>> THEN nraw ELSE nout[Len(nout)]))
  /\ UNCHANGED <<env, pc, marca, modelo, backend, calls, inflight, text, data,
                 status, errors, out, session, nraw>>

NextNorm == Normalize

SpecNorm == InitNorm /\ [][NextNorm]_vars

\* ------------------------------------------------ vocabulary of the claims

Done == pc = "done"

\* the request passed validation and client construction
Requested == Done /\ calls # <<>>

\* brand or model is empty or whitespace-only after trimming
Blank == Strip(OrEmpty(marca)) = <<>> \/ Strip(OrEmpty(modelo)) = <<>>

\* the error messages the user sees after the action
UserErrors ==
  IF app = "streamlit" THEN errors
  ELSE IF out.kind = "error" THEN <<out.msg>> ELSE <<>>

\* the action ended with a parsed result
Succeeded ==
  Done /\ (IF app = "streamlit" THEN status = "complete" ELSE out.kind = "json")

\* the parsed result is the one stored for display
ResultAvailable ==
  IF app = "streamlit"
    THEN last_data = data /\ history # <<>> /\ history[1].data = data
    ELSE out.data = data

ValidationMessage == IF app = "streamlit" THEN MissingFieldsSt ELSE MissingFieldsNg

\* the normalizer of the program that runs
Normalized(t) == IF app = "streamlit" THEN StripCodeFences(t) ELSE NiceguiNormalize(t)

\* the extractor of the specification: the span from the first opening to
\* the last closing brace, or the input when there is no such span
JsonObjectExtractor(s) ==
  LET opens == {i \in 1..Len(s) : s[i] = "{"}
      closes == {i \in 1..Len(s) : s[i] = "}"}
      first == CHOOSE i \in opens : \A k \in opens : i <= k
      last == CHOOSE i \in closes : \A k \in closes : k <= i
  IN IF opens # {} /\ closes # {} /\ last > first THEN SubSeq(s, first, last) ELSE s

\* what the pipeline of the specification would parse from an answer
Pipeline(r) == JsonLoads(JsonObjectExtractor(Normalized(r.text)))

\* the answer to the last call made
LastAnswer == backend[Len(calls)]

\* the request ended with json.loads failing
ParseFailed == Requested /\ ~LastAnswer.raises /\ ~JsonLoads(text).ok

\* ------------------------------------------------------------------ claims

\* C1: a submit with brand or model empty or whitespace-only after trimming
\* ends with the validation error shown and no backend call made, in the
\* Streamlit submit path and in the NiceGUI on_click path.
C1_BlankInputNoBackendCall ==
  (Done /\ Blank) =>
    /\ calls = <<>>
    /\ inflight = 0
    /\ UserErrors = <<ValidationMessage>>
    /\ ~Succeeded

C1_Witness ==
  /\ Done
  /\ app = "streamlit"
  /\ Strip(marca) # <<>>
  /\ modelo = <<" ", "\n">>
  /\ errors = <<MissingFieldsSt>>

\* C2: when the first call returns text that fails the strict parse and the
\* second call of the double returns valid JSON, the request ends with the
\* structure of the second answer and exactly two recorded calls.
C2_RepairedAfterMalformed ==
  (/\ Requested
   /\ ~backend[1].raises /\ backend[1].text # PyNone /\ ~Pipeline(backend[1]).ok
   /\ ~backend[2].raises /\ Pipeline(backend[2]).ok)
  =>
    /\ Succeeded
    /\ data = Pipeline(backend[2]).val
    /\ Len(calls) = 2

\* C3: when both answers of the double are invalid JSON, the request ends in
\* a parse error and the double has recorded exactly two calls.
C3_TwoCallsThenParseError ==
  (/\ Requested
   /\ ~backend[1].raises /\ backend[1].text # PyNone /\ ~Pipeline(backend[1]).ok
   /\ ~backend[2].raises /\ ~Pipeline(backend[2]).ok)
  =>
    /\ ~Succeeded
    /\ Len(UserErrors) = 1
    /\ Len(calls) = 2

\* C4: one submit makes at most two backend calls, and never has two of them
\* in flight: the second starts only after the first has finished.
C4_AtMostTwoSequentialCalls ==
  /\ Len(calls) <= 2
  /\ inflight \in {0, 1}
  /\ inflight <= Len(calls)
  /\ (pc \in {"primary", "fallback"}) = (inflight = 1)
  /\ (pc = "primary" => Len(calls) = 1)

C4_Witness == Len(calls) = 2 /\ inflight = 1 /\ pc = "fallback"

C6_ValidFirstAnswerOneCall ==
  (/\ Requested
   /\ ~backend[1].raises
   /\ backend[1].text # PyNone
   /\ JsonLoads(backend[1].text).ok)
  =>
    /\ Succeeded
    /\ data = JsonLoads(backend[1].text).val
    /\ ResultAvailable
    /\ calls = <<[config |-> TRUE]>>

C6_Witness ==
  /\ Requested
  /\ backend[1] = Answer(EMPTYOBJ)
  /\ Succeeded
  /\ data = <<"{", "}">>
  /\ Len(calls) = 1

\* C7: _strip_code_fences is idempotent: applied to its own output it
\* returns that output.
C7_NormalizerIdempotent == Len(nout) = 2 => nout[2] = nout[1]

\* C8: the span from the first opening to the last closing brace of the
\* normalized answer is what gets parsed, so an answer with prose around an
\* object is parsed as that object.
C8_BraceSpanParsed ==
  (Requested /\ ~backend[1].raises /\ Pipeline(backend[1]).ok) =>
    /\ Succeeded
    /\ data = Pipeline(backend[1]).val

\* C9: when a request ends in a parse failure (of a text that is not
\* empty), the error the user gets holds the parser's error and the exact
\* text that was handed to the parser.
C9_ParseErrorCarriesText ==
  (ParseFailed /\ text # <<>>) =>
    /\ Len(UserErrors) = 1
    /\ UserErrors[1].cause = [msg |-> JsonLoads(text).msg, pos |-> JsonLoads(text).pos]
    /\ UserErrors[1].hasText
    /\ UserErrors[1].text = text

\* C10: every submit ends, and ends either with a parsed result stored for
\* display and no error message, or with exactly one error message and no
\* result; a failure of validation, of client construction, of both backend
\* calls or of the parse always ends the second way.
OneOutcome ==
  Done =>
    /\ Succeeded => (UserErrors = <<>> /\ ResultAvailable /\ Requested
                     /\ ~LastAnswer.raises /\ JsonLoads(text).ok
                     /\ data = JsonLoads(text).val)
    /\ ~Succeeded => (Len(UserErrors) = 1 /\ data = PyNone)
    /\ (Blank \/ ~creds_ok) => ~Succeeded
    /\ (Requested /\ (LastAnswer.raises \/ ~JsonLoads(text).ok)) => ~Succeeded

C10_OneOutcome == []OneOutcome /\ ((pc \notin {"idle", "done"}) ~> Done)

C10_Witness ==
  /\ Done
  /\ Len(calls) = 2
  /\ backend[1].raises
  /\ backend[2].raises
  /\ ~Succeeded
  /\ Len(UserErrors) = 1

\* C11: the history is most-recent-first; it changes only by a successful
\* submit, which puts exactly one new entry at the head and leaves the
\* earlier entries and their order as they were, and by the clear action,
\* which empties it; the history view shows the most recent entries, at most
\* 20 of them.
HistoryOrdered ==
  \A i \in 1..Len(history), j \in 1..Len(history) :
    i < j => history[i].ts > history[j].ts

ViewMostRecent ==
  /\ Len(HistoryView) <= 20
  /\ Len(HistoryView) = Len(history) \/ Len(HistoryView) = 20
  /\ \A i \in 1..Len(HistoryView) :
       /\ HistoryView[i] = history[i]
       /\ \A j \in 1..Len(history) :
            j > Len(HistoryView) => history[j].ts < HistoryView[i].ts

\* the step that ends a request with a parsed result
SubmitSucceeds == pc = "parse" /\ pc' = "done" /\ status' = "complete"

InsertedAtHead ==
  /\ Len(history') = Len(history) + 1
  /\ Tail(history') = history
  /\ history'[1].data = data'
  /\ \A i \in 1..Len(history) : history'[1].ts > history[i].ts

HistoryStep ==
  /\ SubmitSucceeds => InsertedAtHead
  /\ history' # history => (SubmitSucceeds \/ (ClearHistory /\ history' = <<>>))

C11_HistoryHeadInsertOrClear ==
  [](HistoryOrdered /\ ViewMostRecent) /\ [][HistoryStep]_vars

C11_Witness ==
  /\ Len(history) = 21
  /\ Len(HistoryView) = 20
  /\ HistoryView[1].ts = 20
  /\ history[21].ts = 0

\* C12 as stated: in the Streamlit app, between actions, last_data is None
\* exactly when the history is empty, and otherwise it is the data of the
\* head entry.
C12_NoneExactlyWhenEmpty ==
  (app = "streamlit" /\ pc \in {"idle", "done"}) =>
    /\ (last_data = PyNone) = (history = <<>>)
    /\ history # <<>> => last_data = history[1].data

\* C12 as amended: in the Streamlit app last_data is None whenever the
\* history is empty, and is the data of the head entry whenever the history
\* is not empty, for every value the parser returns; it is then None as well
\* when that value is JSON null.
C12_LastDataIsHeadData ==
  app = "streamlit" =>
    /\ history = <<>> => last_data = PyNone
    /\ history # <<>> => last_data = history[1].data

C12_Witness ==
  /\ app = "streamlit"
  /\ pc = "done"
  /\ Len(history) = 2
  /\ history[1].data = PyNone
  /\ history[2].data = <<"{", "}">>
  /\ last_data = PyNone

\* C13: a submit that fails (validation error, both backend calls raising,
\* or a parse failure) leaves the history and last_data as they were before
\* it: no step of a Streamlit request other than the one that ends it with
\* a parsed result changes either of them.
C13_FailedSubmitKeepsSession ==
  [][(app = "streamlit" /\ pc' # "idle" /\ status' # "complete")
       => (history' = history /\ last_data' = last_data)]_vars

C13_Witness ==
  /\ app = "streamlit"
  /\ ParseFailed
  /\ status = "error"
  /\ Len(history) = 1
  /\ history[1].data = OBJ
  /\ last_data = OBJ

====
